---------------------------- MODULE Spec2Model ----------------------------
(***************************************************************************)
(* Model of extract_mbox_contacts.py: the scan of one or more mbox         *)
(* archives into a contact map keyed by e-mail address, the cross-archive  *)
(* merge, and the single CSV write at the end of main.                     *)
(*                                                                         *)
(* Python str values are TLA+ strings; Len, SubSeq, Head, Tail and \o act  *)
(* on them character by character.                                         *)
(***************************************************************************)
EXTENDS Naturals, Sequences, FiniteSets, TLC

VARIABLES
    pc,            \* where main is: "main", "scan", "write", "done", "aborted"
    mbox_paths,    \* args.mbox_paths
    path_idx,      \* index of the archive the for-loop of extract_contacts_from_paths is at
    contacts,      \* extract_contacts: the archive's map, email -> record
    stats,         \* extract_contacts: the archive's counters
    all_contacts,  \* extract_contacts_from_paths: the merged map
    total_stats,   \* extract_contacts_from_paths: the merged counters
    output,        \* the rows of the CSV file, in file order
    writes,        \* how many times write_csv has run
    results,       \* history: what each finished extract_contacts call returned
    source,        \* history: per email of contacts, the Date header and text parts of the
                   \* message that set last_contacted
    all_source,    \* history: the same for all_contacts
    named,         \* history: <<email, iso date>> of every To/Cc pair of a sent message with recipients
    occurrences,   \* history: automated To/Cc occurrences in sent messages with recipients
    stored,        \* history: <<raw address, key>> of every upsert
    msg,           \* extract_contacts: the message the for-loop read last
    whole          \* history: the map extract_contacts would hold had it read every message
                   \* so far, classified as it was, from one archive

vars == <<pc, mbox_paths, path_idx, contacts, stats, all_contacts, total_stats,
          output, writes, results, source, all_source, named, occurrences,
          stored, msg, whole>>

----------------------------------------------------------------------------
(* Bounds of the model.                                                    *)

MaxArchives == 2
MaxMsgs == 3

----------------------------------------------------------------------------
(* Python str primitives.                                                  *)

\* the printable ASCII characters, code points 32..95 and 97..126
PrintableLow == " !\"#$%&'()*+,-./0123456789:;<=>?@ABCDEFGHIJKLMNOPQRSTUVWXYZ[\\]^_"
PrintableHigh == "abcdefghijklmnopqrstuvwxyz{|}~"
Printable == PrintableLow \o PrintableHigh
UpperCase == "ABCDEFGHIJKLMNOPQRSTUVWXYZ"
LowerCase == "abcdefghijklmnopqrstuvwxyz"
Digits == {"0", "1", "2", "3", "4", "5", "6", "7", "8", "9"}
HexDigits == Digits \cup {"a", "b", "c", "d", "e", "f"}
Whitespace == {" ", "\t", "\n", "\r", "\f"}

\* s[i-1:i]: the character at position i, "" outside the string
At(s, i) == IF 1 <= i /\ i <= Len(s) THEN SubSeq(s, i, i) ELSE ""

Chars == {At(Printable, i) : i \in 1..Len(Printable)} \cup Whitespace

\* ord(c)
Ord == [c \in Chars |->
          IF c = "\t" THEN 9
          ELSE IF c = "\n" THEN 10
          ELSE IF c = "\f" THEN 12
          ELSE IF c = "\r" THEN 13
          ELSE IF \E i \in 1..Len(PrintableLow) : At(PrintableLow, i) = c
               THEN 31 + (CHOOSE i \in 1..Len(PrintableLow) : At(PrintableLow, i) = c)
          ELSE 96 + (CHOOSE i \in 1..Len(PrintableHigh) : At(PrintableHigh, i) = c)]

LowerChar == [c \in Chars |->
                IF \E i \in 1..Len(UpperCase) : At(UpperCase, i) = c
                THEN At(LowerCase, CHOOSE i \in 1..Len(UpperCase) : At(UpperCase, i) = c)
                ELSE c]

RECURSIVE Lower(_)
\* str.lower()
Lower(s) == IF s = "" THEN "" ELSE LowerChar[Head(s)] \o Lower(Tail(s))

RECURSIVE LStripSet(_, _)
LStripSet(s, cs) == IF s # "" /\ Head(s) \in cs THEN LStripSet(Tail(s), cs) ELSE s

RECURSIVE RStripSet(_, _)
RStripSet(s, cs) ==
    IF s # "" /\ At(s, Len(s)) \in cs THEN RStripSet(SubSeq(s, 1, Len(s) - 1), cs) ELSE s

\* str.strip() and str.strip(chars)
StripSet(s, cs) == RStripSet(LStripSet(s, cs), cs)
Strip(s) == StripSet(s, Whitespace)

RECURSIVE StrLT(_, _)
\* a < b on str: code point by code point, a proper prefix first
StrLT(a, b) ==
    IF b = "" THEN FALSE
    ELSE IF a = "" THEN TRUE
    ELSE IF Head(a) = Head(b) THEN StrLT(Tail(a), Tail(b))
    ELSE Ord[Head(a)] < Ord[Head(b)]

StrGT(a, b) == StrLT(b, a)

\* s[:n]
Prefix(s, n) == IF Len(s) <= n THEN s ELSE SubSeq(s, 1, n)

\* w occurs in s starting at position i
StartsAt(s, w, i) == i >= 1 /\ i + Len(w) - 1 <= Len(s) /\ SubSeq(s, i, i + Len(w) - 1) = w

\* w in s
Contains(s, w) == \E i \in 1..(Len(s) + 1) : StartsAt(s, w, i)

RECURSIVE SplitOn(_, _, _)
\* the pieces of s between the characters of cs, empty pieces kept (str.split(sep))
SplitOn(s, cs, cur) ==
    IF s = "" THEN <<cur>>
    ELSE IF Head(s) \in cs THEN <<cur>> \o SplitOn(Tail(s), cs, "")
    ELSE SplitOn(Tail(s), cs, cur \o Head(s))

\* str.split(): the runs of non-whitespace
SplitWhitespace(s) == SelectSeq(SplitOn(s, Whitespace, ""), LAMBDA t : t # "")

RECURSIVE CollapseRange(_, _, _)
\* re.sub(r"\s+", " ", s) on s[lo..hi]: a run of whitespace leaves one space, at its first
\* character (the range is halved, so that long bodies do not nest deeply)
CollapseRange(s, lo, hi) ==
    IF lo > hi THEN ""
    ELSE IF lo = hi
         THEN (IF At(s, lo) \notin Whitespace THEN At(s, lo)
               ELSE IF At(s, lo - 1) \in Whitespace THEN "" ELSE " ")
    ELSE LET mid == (lo + hi) \div 2
         IN  CollapseRange(s, lo, mid) \o CollapseRange(s, mid + 1, hi)

CollapseWhitespace(s) == CollapseRange(s, 1, Len(s))

RECURSIVE Join(_, _)
\* sep.join(texts)
Join(texts, sep) ==
    IF texts = <<>> THEN ""
    ELSE IF Len(texts) = 1 THEN texts[1]
    ELSE texts[1] \o sep \o Join(Tail(texts), sep)

\* every character of s[i..j] is in cs
AllIn(s, i, j, cs) == \A k \in i..j : At(s, k) \in cs

\* "." of a regular expression: any character but a line break
NoNewline(s, i, j) == \A k \in i..j : At(s, k) # "\n"

----------------------------------------------------------------------------
(* Message classifier.                                                     *)

SENT_LABEL_TOKENS == {"sent", "sent mail", "sent items"}

\* A header is [present, value, is_str]; msg.get(...) of an absent header is None, of a
\* header of ASCII bytes a str, and of a header holding raw 8-bit bytes an
\* email.header.Header object, which is truthy and has no split method.
NoHeader == [present |-> FALSE, value |-> "", is_str |-> TRUE]
Header(v) == [present |-> TRUE, value |-> v, is_str |-> TRUE]
HeaderObject(v) == [present |-> TRUE, value |-> v, is_str |-> FALSE]

\* the result is [raised, sent]: labels.split raises AttributeError on a Header object
is_sent_message(labels, assume_sent_if_no_labels) ==
    IF ~labels.present \/ (labels.is_str /\ labels.value = "")
    THEN [raised |-> FALSE, sent |-> assume_sent_if_no_labels]
    ELSE IF ~labels.is_str THEN [raised |-> TRUE, sent |-> FALSE]
    ELSE LET pieces == SplitOn(labels.value, {","}, "")
             label_tokens == {Lower(Strip(pieces[i])) : i \in 1..Len(pieces)}
         IN  [raised |-> FALSE,
              sent |-> \E token \in SENT_LABEL_TOKENS : token \in label_tokens]

\* assume_sent of extract_contacts: some token of the tuple occurs in the lowercased path
SENT_PATH_TOKENS == {"/sent", "\\sent", "sent mail", "sent_mail", "-sent", "sent.mbox", "sent"}

AssumeSent(mbox_path) == \E tok \in SENT_PATH_TOKENS : Contains(Lower(mbox_path), tok)

----------------------------------------------------------------------------
(* Address filter.  Each rule is one regular expression of                 *)
(* AUTOMATED_EMAIL_PATTERNS, given by its shape and its literal text.      *)

AUTOMATED_EMAIL_PATTERNS == <<
    [kind |-> "at_suffix",  text |-> ".hubspotemail.net"],    \* .*@.*\.hubspotemail\.net$
    [kind |-> "at_suffix",  text |-> ".hubspot.com"],         \* .*@.*\.hubspot\.com$
    [kind |-> "suffix",     text |-> "@bcc.hubspot.com"],     \* .*@bcc\.hubspot\.com$
    [kind |-> "at_word",    text |-> "unsubscribe"],          \* .*@.*unsubscribe.*
    [kind |-> "at_word",    text |-> "noreply"],              \* .*@.*noreply.*
    [kind |-> "at_word",    text |-> "no-reply"],             \* .*@.*no-reply.*
    [kind |-> "at_word",    text |-> "donotreply"],           \* .*@.*donotreply.*
    [kind |-> "at_word",    text |-> "bounce"],               \* .*@.*bounce.*
    [kind |-> "at_word",    text |-> "mailer-daemon"],        \* .*@.*mailer-daemon.*
    [kind |-> "hex_local",  text |-> ""],                     \* ^[a-f0-9]{20,}@.*
    [kind |-> "mark_equals", text |-> "+"],                   \* .*\+.*=.*@.*
    [kind |-> "num_local",  text |-> ""],                     \* ^\d+@.*
    [kind |-> "mark_equals", text |-> "-"],                   \* .*-.*=.*@.*
    [kind |-> "at_suffix",  text |-> ".linuxfoundation.org"]  \* .*@.*\.linuxfoundation\.org$
>>

\* the least length of the hexadecimal local part, {20,}
HEX_MIN == 20

\* "$": position j is the last of s, or only a final line break follows it
AtEnd(s, j) == j = Len(s) \/ (j = Len(s) - 1 /\ At(s, Len(s)) = "\n")

\* re.match(pattern, s): the pattern matches a prefix of s
ReMatch(rule, s) ==
    LET w == rule.text
        n == Len(s)
    IN  CASE rule.kind = "at_suffix" ->
               \E i \in 1..n : \E j \in (i + 1)..n :
                   /\ At(s, i) = "@"
                   /\ StartsAt(s, w, j)
                   /\ AtEnd(s, j + Len(w) - 1)
                   /\ NoNewline(s, 1, j - 1)
          [] rule.kind = "suffix" ->
               \E j \in 1..n :
                   /\ StartsAt(s, w, j)
                   /\ AtEnd(s, j + Len(w) - 1)
                   /\ NoNewline(s, 1, j - 1)
          [] rule.kind = "at_word" ->
               \E i \in 1..n : \E j \in (i + 1)..n :
                   /\ At(s, i) = "@"
                   /\ StartsAt(s, w, j)
                   /\ NoNewline(s, 1, j - 1)
          [] rule.kind = "hex_local" ->
               \E k \in HEX_MIN..n : AllIn(s, 1, k, HexDigits) /\ At(s, k + 1) = "@"
          [] rule.kind = "num_local" ->
               \E k \in 1..n : AllIn(s, 1, k, Digits) /\ At(s, k + 1) = "@"
          [] rule.kind = "mark_equals" ->
               \E i \in 1..n : \E j \in (i + 1)..n : \E k \in (j + 1)..n :
                   /\ At(s, i) = w
                   /\ At(s, j) = "="
                   /\ At(s, k) = "@"
                   /\ NoNewline(s, 1, k - 1)

RECURSIVE FirstMatch(_, _)
\* the for-loop of is_automated_email from rule i on: True at the first rule that matches
FirstMatch(email_lower, i) ==
    IF i > Len(AUTOMATED_EMAIL_PATTERNS) THEN FALSE
    ELSE IF ReMatch(AUTOMATED_EMAIL_PATTERNS[i], email_lower) THEN TRUE
    ELSE FirstMatch(email_lower, i + 1)

is_automated_email(addr) == FirstMatch(Lower(addr), 1)

----------------------------------------------------------------------------
(* Display names.                                                          *)

\* split_name: [raised, first_name, last_name]; tokens[0] of an empty list raises IndexError
split_name(name) ==
    IF name = "" THEN [raised |-> FALSE, first_name |-> "", last_name |-> ""]
    ELSE LET stripped == StripSet(StripSet(Strip(name), {"\""}), {"'"})
             tokens == SplitWhitespace(stripped)
         IN  IF stripped = "" THEN [raised |-> FALSE, first_name |-> "", last_name |-> ""]
             ELSE IF Len(tokens) = 1
                  THEN [raised |-> FALSE, first_name |-> tokens[1], last_name |-> ""]
             ELSE IF Len(tokens) = 0
                  THEN [raised |-> TRUE, first_name |-> "", last_name |-> ""]
             ELSE [raised |-> FALSE, first_name |-> tokens[1], last_name |-> tokens[Len(tokens)]]

----------------------------------------------------------------------------
(* Body text, phone number and notes.                                      *)

\* parse_body_text from the decoded text parts on: join, strip, collapse whitespace
parse_body_text(texts) == CollapseWhitespace(Strip(Join(texts, "\n")))

\* [\s.-] of PHONE_REGEX
PhoneSeparators == Whitespace \cup {".", "-"}

IsDigits(s, p, n) == p + n - 1 <= Len(s) /\ AllIn(s, p, p + n - 1, Digits)
Bit(b) == IF b THEN 1 ELSE 0

RECURSIVE FirstHit(_, _)
\* the first alternative from i on, in the order the regex engine tries them, that matched
FirstHit(ends, i) ==
    IF i > Len(ends) THEN 0 ELSE IF ends[i] # 0 THEN ends[i] ELSE FirstHit(ends, i + 1)

\* \d{3}[\s.-]?\d{4} at p: the position after the match, 0 for none
LocalNumber(s, p) ==
    IF ~IsDigits(s, p, 3) THEN 0
    ELSE IF At(s, p + 3) \in PhoneSeparators /\ IsDigits(s, p + 4, 4) THEN p + 8
    ELSE IF IsDigits(s, p + 3, 4) THEN p + 7
    ELSE 0

\* \(?\d{3}\)?[\s.-]? with the optional parts opt = <<open, close, sep>>, then the local number
AreaWith(s, p, opt) ==
    LET a == p + Bit(opt[1])
        b == a + 3
        c == b + Bit(opt[2])
    IN  IF /\ (opt[1] => At(s, p) = "(")
           /\ IsDigits(s, a, 3)
           /\ (opt[2] => At(s, b) = ")")
           /\ (opt[3] => At(s, c) \in PhoneSeparators)
        THEN LocalNumber(s, c + Bit(opt[3]))
        ELSE 0

\* the optional parts in the order a greedy "?" tries them: taken first, the last one varying first
AreaOptions == <<<<TRUE, TRUE, TRUE>>,   <<TRUE, TRUE, FALSE>>,
                 <<TRUE, FALSE, TRUE>>,  <<TRUE, FALSE, FALSE>>,
                 <<FALSE, TRUE, TRUE>>,  <<FALSE, TRUE, FALSE>>,
                 <<FALSE, FALSE, TRUE>>, <<FALSE, FALSE, FALSE>>>>

AreaCode(s, p) == FirstHit([i \in 1..Len(AreaOptions) |-> AreaWith(s, p, AreaOptions[i])], 1)

\* (?:\+?\d{1,3}[\s.-]?)? with opt = <<digits, sep>>, no digits standing for the group left
\* out, then the area code
CountryWith(s, p, opt) ==
    LET a == p + Bit(At(s, p) = "+")
        b == a + opt[1]
        next == IF opt[1] = 0 THEN p
                ELSE IF IsDigits(s, a, opt[1]) /\ (opt[2] => At(s, b) \in PhoneSeparators)
                     THEN b + Bit(opt[2])
                ELSE 0
    IN  IF next = 0 THEN 0 ELSE AreaCode(s, next)

\* \d{1,3} is greedy: three digits first; then the separator taken first; last, no country code
CountryOptions == <<<<3, TRUE>>, <<3, FALSE>>, <<2, TRUE>>, <<2, FALSE>>,
                    <<1, TRUE>>, <<1, FALSE>>, <<0, FALSE>>>>

\* the first alternative of PHONE_REGEX at p
NationalForm(s, p) ==
    FirstHit([i \in 1..Len(CountryOptions) |-> CountryWith(s, p, CountryOptions[i])], 1)

\* the second alternative: \+\d{7,15}
CondensedForm(s, p) ==
    IF At(s, p) = "+" /\ IsDigits(s, p + 1, 7)
    THEN LET n == CHOOSE k \in 7..15 :
                     IsDigits(s, p + 1, k) /\ (k = 15 \/ ~IsDigits(s, p + 1, k + 1))
         IN  p + 1 + n
    ELSE 0

PhoneMatchAt(s, p) == FirstHit(<<NationalForm(s, p), CondensedForm(s, p)>>, 1)

\* PHONE_REGEX.search(body): group(0) of the leftmost match, "" for none
PhoneSearch(body) ==
    LET hits == {p \in 1..Len(body) : PhoneMatchAt(body, p) # 0}
    IN  IF hits = {} THEN ""
        ELSE LET p == CHOOSE q \in hits : \A r \in hits : q <= r
             IN  SubSeq(body, p, PhoneMatchAt(body, p) - 1)

\* the length of the notes snippet, body[:200]
NOTES_LEN == 200

NotesOf(body) == Prefix(body, NOTES_LEN)

----------------------------------------------------------------------------
(* Date header.                                                            *)

\* A Date header is [present, parsed, dt]: parsed says whether
\* parsedate_to_datetime returns a datetime dt or raises.
NoDate == [present |-> FALSE, parsed |-> FALSE, dt |-> <<>>]
BadDate == [present |-> TRUE, parsed |-> FALSE, dt |-> <<>>]
GoodDate(dt) == [present |-> TRUE, parsed |-> TRUE, dt |-> dt]

DecimalDigits == "0123456789"
Pad2(n) == At(DecimalDigits, ((n \div 10) % 10) + 1) \o At(DecimalDigits, (n % 10) + 1)
Pad4(n) == Pad2(n \div 100) \o Pad2(n % 100)

\* datetime.isoformat(): YYYY-MM-DDTHH:MM:SS, then +HH:MM or -HH:MM when dt has an offset
IsoFormat(dt) ==
    Pad4(dt.year) \o "-" \o Pad2(dt.month) \o "-" \o Pad2(dt.day) \o "T"
        \o Pad2(dt.hour) \o ":" \o Pad2(dt.minute) \o ":" \o Pad2(dt.second)
        \o (IF dt.tz = "" THEN "" ELSE dt.tz \o Pad2(dt.tz_hour) \o ":" \o Pad2(dt.tz_minute))

\* iso_date of extract_contacts: "" when the header is absent or does not parse
IsoDate(date_hdr) ==
    IF date_hdr.present /\ date_hdr.parsed THEN IsoFormat(date_hdr.dt) ELSE ""

----------------------------------------------------------------------------
(* Contact records and the two update rules.                               *)

EmptyMap == [k \in {} |-> 0]

\* the map m with key k set to v
Put(m, k, v) == [x \in DOMAIN m \cup {k} |-> IF x = k THEN v ELSE m[x]]

ZeroStats == [total_messages |-> 0, sent_messages |-> 0, messages_with_recipients |-> 0,
              parse_errors |-> 0, unique_emails |-> 0, automated_emails_filtered |-> 0]

\* a normalisation that trims but keeps the letter case
NormalizeEmail_KeepCase(addr) == Strip(addr)

\* email = (email or '').strip().lower()
NormalizeEmail(addr) == Lower(Strip(addr))

\* the record extract_contacts creates at the first sighting of an email
NewRecord(em, first_name, last_name, phone, iso_date, notes) ==
    [email |-> em, first_name |-> first_name, last_name |-> last_name,
     phone |-> phone, last_contacted |-> iso_date, notes |-> notes]

\* a replace that does not ask for a date on the incoming message
ScanReplace_AnyDate(existing, iso_date) ==
    existing.last_contacted = "" \/ StrGT(iso_date, existing.last_contacted)

\* replace of extract_contacts
ScanReplace(existing, iso_date) ==
    iso_date # "" /\ (existing.last_contacted = "" \/ StrGT(iso_date, existing.last_contacted))

\* an else branch in which the phone follows the more recent message, empty or not
UpdateExisting_PhoneFollowsDate(existing, first_name, last_name, phone, iso_date, notes) ==
    LET replace == ScanReplace(existing, iso_date)
    IN  [email |-> existing.email,
         first_name |-> IF existing.first_name = "" /\ first_name # ""
                        THEN first_name ELSE existing.first_name,
         last_name |-> IF existing.last_name = "" /\ last_name # ""
                       THEN last_name ELSE existing.last_name,
         last_contacted |-> IF replace THEN iso_date ELSE existing.last_contacted,
         notes |-> IF replace THEN notes ELSE existing.notes,
         phone |-> IF replace \/ existing.phone = "" THEN phone ELSE existing.phone]

\* an else branch that takes the notes of every later message, whatever its date
UpdateExisting_NotesAlways(existing, first_name, last_name, phone, iso_date, notes) ==
    LET replace == ScanReplace(existing, iso_date)
    IN  [email |-> existing.email,
         first_name |-> IF existing.first_name = "" /\ first_name # ""
                        THEN first_name ELSE existing.first_name,
         last_name |-> IF existing.last_name = "" /\ last_name # ""
                       THEN last_name ELSE existing.last_name,
         last_contacted |-> IF replace THEN iso_date ELSE existing.last_contacted,
         notes |-> notes,
         phone |-> IF phone # "" /\ (existing.phone = "" \/ replace)
                   THEN phone ELSE existing.phone]

\* the else branch of extract_contacts: a later message naming an email already in the map
UpdateExisting(existing, first_name, last_name, phone, iso_date, notes) ==
    LET replace == ScanReplace(existing, iso_date)
    IN  [email |-> existing.email,
         first_name |-> IF existing.first_name = "" /\ first_name # ""
                        THEN first_name ELSE existing.first_name,
         last_name |-> IF existing.last_name = "" /\ last_name # ""
                       THEN last_name ELSE existing.last_name,
         last_contacted |-> IF replace THEN iso_date ELSE existing.last_contacted,
         notes |-> IF replace THEN notes ELSE existing.notes,
         phone |-> IF phone # "" /\ (existing.phone = "" \/ replace)
                   THEN phone ELSE existing.phone]

\* replace of merge_contact
MergeReplace(existing, incoming) ==
    incoming.last_contacted # ""
        /\ (existing.last_contacted = ""
            \/ StrGT(incoming.last_contacted, existing.last_contacted))

\* a merge in which an incoming record of the same date replaces as well
merge_contact_TiesReplace(existing, incoming) ==
    LET replace == incoming.last_contacted # ""
                      /\ ~StrGT(existing.last_contacted, incoming.last_contacted)
    IN  [email |-> existing.email,
         first_name |-> IF existing.first_name = "" /\ incoming.first_name # ""
                        THEN incoming.first_name ELSE existing.first_name,
         last_name |-> IF existing.last_name = "" /\ incoming.last_name # ""
                       THEN incoming.last_name ELSE existing.last_name,
         last_contacted |-> IF replace THEN incoming.last_contacted
                            ELSE existing.last_contacted,
         notes |-> IF replace THEN incoming.notes ELSE existing.notes,
         phone |-> IF incoming.phone # "" /\ (replace \/ existing.phone = "")
                   THEN incoming.phone ELSE existing.phone]

\* a merge in which the names follow the more recent record
merge_contact_NamesFollowDate(existing, incoming) ==
    LET replace == MergeReplace(existing, incoming)
    IN  [email |-> existing.email,
         first_name |-> IF replace /\ incoming.first_name # ""
                        THEN incoming.first_name ELSE existing.first_name,
         last_name |-> IF replace /\ incoming.last_name # ""
                       THEN incoming.last_name ELSE existing.last_name,
         last_contacted |-> IF replace THEN incoming.last_contacted
                            ELSE existing.last_contacted,
         notes |-> IF replace THEN incoming.notes ELSE existing.notes,
         phone |-> IF incoming.phone # "" /\ (replace \/ existing.phone = "")
                   THEN incoming.phone ELSE existing.phone]

merge_contact(existing, incoming) ==
    LET replace == MergeReplace(existing, incoming)
    IN  [email |-> existing.email,
         first_name |-> IF existing.first_name = "" /\ incoming.first_name # ""
                        THEN incoming.first_name ELSE existing.first_name,
         last_name |-> IF existing.last_name = "" /\ incoming.last_name # ""
                       THEN incoming.last_name ELSE existing.last_name,
         last_contacted |-> IF replace THEN incoming.last_contacted
                            ELSE existing.last_contacted,
         notes |-> IF replace THEN incoming.notes ELSE existing.notes,
         phone |-> IF incoming.phone # "" /\ (replace \/ existing.phone = "")
                   THEN incoming.phone ELSE existing.phone]

\* a contact loop that keeps only the emails of the archive it is merging
MergeContacts_DropAbsent(all, incoming_map) ==
    [k \in DOMAIN incoming_map |->
        IF k \notin DOMAIN all THEN incoming_map[k]
        ELSE merge_contact(all[k], incoming_map[k])]

\* the contact loop of extract_contacts_from_paths: a copy at the first sighting, a merge after
MergeContacts(all, incoming_map) ==
    [k \in DOMAIN all \cup DOMAIN incoming_map |->
        IF k \notin DOMAIN incoming_map THEN all[k]
        ELSE IF k \notin DOMAIN all THEN incoming_map[k]
        ELSE merge_contact(all[k], incoming_map[k])]

\* a statistics loop that forgets the parse errors of the archives
MergeStats_NoParseErrors(total, st) ==
    [total_messages |-> total.total_messages + st.total_messages,
     sent_messages |-> total.sent_messages + st.sent_messages,
     messages_with_recipients |-> total.messages_with_recipients + st.messages_with_recipients,
     parse_errors |-> total.parse_errors,
     unique_emails |-> total.unique_emails,
     automated_emails_filtered |-> total.automated_emails_filtered
                                      + st.automated_emails_filtered]

\* the statistics loop of extract_contacts_from_paths: every counter but unique_emails is added
MergeStats(total, st) ==
    [total_messages |-> total.total_messages + st.total_messages,
     sent_messages |-> total.sent_messages + st.sent_messages,
     messages_with_recipients |-> total.messages_with_recipients + st.messages_with_recipients,
     parse_errors |-> total.parse_errors + st.parse_errors,
     unique_emails |-> total.unique_emails,
     automated_emails_filtered |-> total.automated_emails_filtered
                                      + st.automated_emails_filtered]

----------------------------------------------------------------------------
(* The inputs the model draws from.                                        *)

PathValues == {"Takeout/Sent.mbox", "All mail.mbox"}

PathLists == UNION {[1..n -> PathValues] : n \in 1..MaxArchives}

LabelSent == Header("Important, Sent Mail")
LabelInbox == Header("Inbox,Unsent")
\* a label with raw 8-bit bytes, which str() renders as replacement characters
LabelRaw == HeaderObject("Caf??,Sent")

\* To/Cc pairs as getaddresses returns them: [name, addr]
PairJane == [name |-> "Jane Doe", addr |-> "A@X.com\f"]
PairAnon == [name |-> "", addr |-> "a@x.com"]
PairBob == [name |-> "\"Bob\"", addr |-> "a@x.com"]
PairAl == [name |-> "Al B. Cee", addr |-> "noreply@y.org"]
PairAuto == [name |-> "List", addr |-> "a@NoReply.y.org"]
PairBlank == [name |-> "' '", addr |-> "a@x.com"]
PairEmpty == [name |-> "", addr |-> ""]

Jan1 == [year |-> 2024, month |-> 1, day |-> 1, hour |-> 10, minute |-> 0, second |-> 0,
         tz |-> "+", tz_hour |-> 0, tz_minute |-> 0]
Feb1 == [year |-> 2024, month |-> 2, day |-> 1, hour |-> 9, minute |-> 30, second |-> 5,
         tz |-> "-", tz_hour |-> 5, tz_minute |-> 0]

RECURSIVE Repeat(_, _)
Repeat(s, n) == IF n = 0 THEN "" ELSE s \o Repeat(s, n - 1)

\* the decoded text/plain parts of a message
TextNone == <<>>
TextPlain == <<"See  you\tsoon">>
TextPhone == <<"Call me:\n", " 555-123-4567 ">>
\* longer than the notes snippet, with a phone number after the cut
TextLong == <<Repeat("lorem ipsum dolor ", 12) \o "+442071234567">>

Msg(labels, pairs, date, texts) ==
    [labels |-> labels, pairs |-> pairs, date |-> date, texts |-> texts]

\* The messages an archive may hold: labelled sent, unlabelled and labelled otherwise; no,
\* one and several recipients; new, repeated, automated and empty addresses; a display
\* name split_name raises on, before and after other recipients; dated, undated and
\* undatable; equal and different dates; bodies with and without a phone number; a label
\* header that is not a str.
Messages == {
    Msg(LabelSent,  <<PairJane>>,                      GoodDate(Jan1), TextPhone),
    Msg(LabelSent,  <<PairAnon>>,                      GoodDate(Feb1), TextPlain),
    Msg(LabelSent,  <<PairJane>>,                      GoodDate(Feb1), TextLong),
    Msg(NoHeader,   <<PairBob, PairAl>>,               GoodDate(Jan1), TextPlain),
    Msg(LabelSent,  <<PairAl, PairBlank>>,             GoodDate(Feb1), TextPhone),
    Msg(LabelSent,  <<PairBlank, PairAnon, PairAuto>>, GoodDate(Feb1), TextPlain),
    Msg(LabelSent,  <<PairAuto, PairEmpty, PairAnon>>, NoDate,         TextLong),
    Msg(LabelSent,  <<PairAnon>>,                      BadDate,        TextNone),
    Msg(LabelInbox, <<PairAnon>>,                      GoodDate(Feb1), TextPhone),
    Msg(LabelSent,  <<>>,                              GoodDate(Jan1), TextPlain),
    Msg(LabelRaw,   <<PairAnon>>,                      GoodDate(Jan1), TextPlain)}

LabelValues == {m.labels : m \in Messages}
Pairs == UNION {{m.pairs[i] : i \in 1..Len(m.pairs)} : m \in Messages}
DateValues == {m.date : m \in Messages}
TextValues == {m.texts : m \in Messages}

\* what extract_contacts derives once per message from its body
BodyFacts == [t \in TextValues |->
                LET body == parse_body_text(t)
                IN  [body |-> body, phone |-> PhoneSearch(body), notes |-> NotesOf(body)]]

DateFacts == [d \in DateValues |-> IsoDate(d)]

\* what the recipient loop derives from one pair: the key, the filter's verdict, the names
PairFacts == [p \in Pairs |->
                LET em == NormalizeEmail(p.addr)
                IN  [email |-> em,
                     automated |-> em # "" /\ is_automated_email(em),
                     names |-> split_name(p.name)]]

\* is_sent_message per label header and default
SentFacts == [l \in LabelValues |-> [a \in BOOLEAN |-> is_sent_message(l, a)]]

AssumeSentFacts == [path \in PathValues |-> AssumeSent(path)]

----------------------------------------------------------------------------
(* extract_contacts: one message of the archive.                           *)

RECURSIVE ProcessPairs(_, _, _, _)
\* the recipient loop from pair i on; acc is [contacts, filtered, raised, source, stored]
ProcessPairs(m, pairs, i, acc) ==
    IF i > Len(pairs) \/ acc.raised THEN acc
    ELSE LET em == PairFacts[pairs[i]].email
             nm == PairFacts[pairs[i]].names
             facts == BodyFacts[m.texts]
             iso_date == DateFacts[m.date]
         IN  IF em = "" THEN ProcessPairs(m, pairs, i + 1, acc)
             ELSE IF PairFacts[pairs[i]].automated
                  THEN ProcessPairs(m, pairs, i + 1, [acc EXCEPT !.filtered = @ + 1])
             ELSE IF nm.raised THEN [acc EXCEPT !.raised = TRUE]
             ELSE IF em \notin DOMAIN acc.contacts
                  THEN ProcessPairs(m, pairs, i + 1,
                         [acc EXCEPT
                            !.contacts = Put(@, em, NewRecord(em, nm.first_name, nm.last_name,
                                                     facts.phone, iso_date, facts.notes)),
                            !.source = Put(@, em, [date |-> m.date, texts |-> m.texts]),
                            !.stored = @ \cup {<<pairs[i].addr, em>>}])
             ELSE ProcessPairs(m, pairs, i + 1,
                         [acc EXCEPT
                            !.contacts = Put(@, em, UpdateExisting(acc.contacts[em],
                                                     nm.first_name, nm.last_name,
                                                     facts.phone, iso_date, facts.notes)),
                            !.source = IF ScanReplace(acc.contacts[em], iso_date)
                                       THEN Put(@, em, [date |-> m.date, texts |-> m.texts]) ELSE @,
                            !.stored = @ \cup {<<pairs[i].addr, em>>}])

\* the automated addresses among the pairs, counted per occurrence
RECURSIVE AutomatedCount(_)
AutomatedCount(pairs) ==
    IF pairs = <<>> THEN 0
    ELSE Bit(PairFacts[pairs[1]].automated) + AutomatedCount(Tail(pairs))

\* no message read yet
NoMsg == Msg(NoHeader, <<>>, NoDate, TextNone)

Init ==
    /\ pc = "main"
    /\ mbox_paths \in PathLists
    /\ path_idx = 1
    /\ contacts = EmptyMap
    /\ stats = ZeroStats
    /\ all_contacts = EmptyMap
    /\ total_stats = ZeroStats
    /\ output = <<>>
    /\ writes = 0
    /\ results = <<>>
    /\ source = EmptyMap
    /\ all_source = EmptyMap
    /\ named = {}
    /\ occurrences = 0
    /\ stored = {}
    /\ msg = NoMsg
    /\ whole = EmptyMap

\* extract_contacts is entered for the next path: mailbox.mbox(mbox_path) opens it
OpenArchive ==
    /\ pc = "main"
    /\ path_idx <= Len(mbox_paths)
    /\ pc' = "scan"
    /\ contacts' = EmptyMap
    /\ stats' = ZeroStats
    /\ source' = EmptyMap
    /\ msg' = NoMsg
    /\ UNCHANGED <<mbox_paths, path_idx, all_contacts, total_stats, output, writes,
                   results, all_source, named, occurrences, stored, whole>>

\* a failing archive that is skipped instead of ending the run
ArchiveFails_Skip ==
    /\ pc \in {"main", "scan"}
    /\ path_idx <= Len(mbox_paths)
    /\ pc' = "main"
    /\ path_idx' = path_idx + 1
    /\ UNCHANGED <<mbox_paths, contacts, stats, all_contacts, total_stats, output,
                   writes, results, source, all_source, named, occurrences, stored,
                   msg, whole>>

\* the archive cannot be opened or read: the exception leaves extract_contacts and main
ArchiveFails ==
    /\ pc \in {"main", "scan"}
    /\ path_idx <= Len(mbox_paths)
    /\ pc' = "aborted"
    /\ UNCHANGED <<mbox_paths, path_idx, contacts, stats, all_contacts, total_stats, output,
                   writes, results, source, all_source, named, occurrences, stored,
                   msg, whole>>

\* one iteration of "for msg in mbox"
ScanMessage(m) ==
    /\ pc = "scan"
    /\ total_stats.total_messages + stats.total_messages < MaxMsgs
    /\ LET classified == SentFacts[m.labels][AssumeSentFacts[mbox_paths[path_idx]]]
           sent == ~classified.raised /\ classified.sent
           counted == sent /\ m.pairs # <<>>
           acc == ProcessPairs(m, m.pairs, 1,
                      [contacts |-> contacts, filtered |-> 0, raised |-> FALSE,
                       source |-> source, stored |-> stored])
       IN  /\ stats' = [stats EXCEPT
                 !.total_messages = @ + 1,
                 !.sent_messages = @ + Bit(sent),
                 !.messages_with_recipients = @ + Bit(counted),
                 !.automated_emails_filtered = @ + (IF counted THEN acc.filtered ELSE 0),
                 !.parse_errors = @ + Bit(classified.raised \/ (counted /\ acc.raised))]
           /\ contacts' = IF counted THEN acc.contacts ELSE contacts
           /\ source' = IF counted THEN acc.source ELSE source
           /\ stored' = IF counted THEN acc.stored ELSE stored
           /\ named' = IF counted
                       THEN named \cup {<<PairFacts[m.pairs[i]].email, DateFacts[m.date]>> :
                                           i \in 1..Len(m.pairs)}
                       ELSE named
           /\ occurrences' = occurrences + (IF counted THEN AutomatedCount(m.pairs) ELSE 0)
           /\ whole' = IF counted
                       THEN ProcessPairs(m, m.pairs, 1,
                                [contacts |-> whole, filtered |-> 0, raised |-> FALSE,
                                 source |-> EmptyMap, stored |-> {}]).contacts
                       ELSE whole
    /\ msg' = m
    /\ UNCHANGED <<pc, mbox_paths, path_idx, all_contacts, total_stats, output, writes,
                   results, all_source>>

\* the archive is exhausted: extract_contacts returns, its result is merged
FinishArchive ==
    /\ pc = "scan"
    /\ LET returned == [stats EXCEPT !.unique_emails = Cardinality(DOMAIN contacts)]
       IN  /\ stats' = returned
           /\ total_stats' = MergeStats(total_stats, returned)
           /\ results' = Append(results, [contacts |-> contacts, stats |-> returned])
    /\ all_contacts' = MergeContacts(all_contacts, contacts)
    /\ all_source' = [k \in DOMAIN all_contacts \cup DOMAIN contacts |->
                        IF k \notin DOMAIN contacts THEN all_source[k]
                        ELSE IF k \notin DOMAIN all_contacts THEN source[k]
                        ELSE IF MergeReplace(all_contacts[k], contacts[k]) THEN source[k]
                        ELSE all_source[k]]
    /\ path_idx' = path_idx + 1
    /\ pc' = "main"
    /\ UNCHANGED <<mbox_paths, contacts, output, writes, source, named, occurrences,
                   stored, msg, whole>>

\* every path is done: unique_emails is recomputed and extract_contacts_from_paths returns
FinishPaths ==
    /\ pc = "main"
    /\ path_idx > Len(mbox_paths)
    /\ total_stats' = [total_stats EXCEPT !.unique_emails = Cardinality(DOMAIN all_contacts)]
    /\ pc' = "write"
    /\ UNCHANGED <<mbox_paths, path_idx, contacts, stats, all_contacts, output, writes,
                   results, source, all_source, named, occurrences, stored, msg, whole>>

RECURSIVE SortedKeys(_)
\* sorted(contacts.items(), key=lambda kv: kv[0]): the keys in ascending order
SortedKeys(keys) ==
    IF keys = {} THEN <<>>
    ELSE LET least == CHOOSE k \in keys : \A other \in keys \ {k} : StrLT(k, other)
         IN  <<least>> \o SortedKeys(keys \ {least})

\* write_csv: one row per contact with the six fields, in key order
write_csv(cs) == LET keys == SortedKeys(DOMAIN cs) IN [i \in 1..Len(keys) |-> cs[keys[i]]]

WriteCsv ==
    /\ pc = "write"
    /\ output' = write_csv(all_contacts)
    /\ writes' = writes + 1
    /\ pc' = "done"
    /\ UNCHANGED <<mbox_paths, path_idx, contacts, stats, all_contacts, total_stats,
                   results, source, all_source, named, occurrences, stored, msg, whole>>

Next ==
    \/ OpenArchive
    \/ ArchiveFails
    \/ \E m \in Messages : ScanMessage(m)
    \/ FinishArchive
    \/ FinishPaths
    \/ WriteCsv

Spec == Init /\ [][Next]_vars

----------------------------------------------------------------------------
(* Properties.                                                             *)

Finished == pc \in {"write", "done"}

\* the trimmed, lowercased form of each recipient address of the inputs
Canonical == [a \in {p.addr : p \in Pairs} |-> Lower(Strip(a))]

\* C1 (Identity): every key of a per-archive map and of the final map equals its record's
\* email field; once every archive is merged the keys of the final map are exactly the
\* trimmed, lowercased forms of the recipient addresses that were upserted, and addresses
\* with the same trimmed, lowercased form were upserted under one key.
C1_Identity ==
    /\ \A k \in DOMAIN contacts : contacts[k].email = k
    /\ \A k \in DOMAIN all_contacts : all_contacts[k].email = k
    /\ Finished =>
          /\ DOMAIN all_contacts = {Canonical[p[1]] : p \in stored}
          /\ \A p \in stored : p[2] \in DOMAIN all_contacts
          /\ \A p, q \in stored : Canonical[p[1]] = Canonical[q[1]] => p[2] = q[2]

\* two spellings of one address were upserted into one record, next to another contact,
\* over two archives
C1_Witness ==
    /\ pc = "done"
    /\ Len(mbox_paths) = 2
    /\ Cardinality(DOMAIN all_contacts) >= 2
    /\ \E p, q \in stored : p[1] # q[1] /\ p[2] = q[2]

\* the lexicographically greatest string of a set, "" for the empty set
MaxDate(ds) == IF ds = {} THEN "" ELSE CHOOSE d \in ds : \A e \in ds : ~StrGT(e, d)

\* the non-empty dates of the sent messages with recipients that name the email k in To/Cc
DatesNaming(k) == {p[2] : p \in {q \in named : q[1] = k}} \ {""}

\* C2 (Recency monotonicity): once every archive is merged, each contact's last_contacted
\* is the lexicographically greatest non-empty date among the sent messages with
\* recipients, of any archive, that name the contact in To/Cc, and is empty when none of
\* them has a date.
C2_Recency ==
    Finished =>
        \A k \in DOMAIN all_contacts : all_contacts[k].last_contacted = MaxDate(DatesNaming(k))

\* C3 (Notes/date atomicity): in every state of the per-archive fold and of the merge, a
\* record's last_contacted is the date of the message that set it and its notes are the
\* 200-character body snippet of that same message.
C3_NotesDateAtomic ==
    /\ DOMAIN source = DOMAIN contacts
    /\ DOMAIN all_source = DOMAIN all_contacts
    /\ \A k \in DOMAIN contacts :
          /\ contacts[k].last_contacted = DateFacts[source[k].date]
          /\ contacts[k].notes = BodyFacts[source[k].texts].notes
    /\ \A k \in DOMAIN all_contacts :
          /\ all_contacts[k].last_contacted = DateFacts[all_source[k].date]
          /\ all_contacts[k].notes = BodyFacts[all_source[k].texts].notes

\* a later archive's more recent record replaced the date and the notes of a contact of
\* the first archive, whose own notes were set by the later of two messages naming it
C3_Witness ==
    /\ pc = "done"
    /\ Len(results) = 2
    /\ \E k \in DOMAIN results[1].contacts \cap DOMAIN results[2].contacts :
          /\ results[1].contacts[k].last_contacted # ""
          /\ results[1].stats.messages_with_recipients >= 2
          /\ all_contacts[k].last_contacted # results[1].contacts[k].last_contacted
          /\ all_contacts[k].notes # results[1].contacts[k].notes
          /\ all_contacts[k].notes = results[2].contacts[k].notes

\* the first non-empty value of a name field that the recipient loop offers to the record
\* of k, from pair i on: empty and automated addresses are skipped, a raise ends the loop
RECURSIVE FirstOffered(_, _, _, _)
FirstOffered(pairs, i, k, field) ==
    IF i > Len(pairs) THEN ""
    ELSE LET f == PairFacts[pairs[i]]
         IN  IF f.email = "" \/ f.automated THEN FirstOffered(pairs, i + 1, k, field)
             ELSE IF f.names.raised THEN ""
             ELSE IF f.email = k /\ f.names[field] # "" THEN f.names[field]
             ELSE FirstOffered(pairs, i + 1, k, field)

\* the value a name field takes in a step that offers the value offered to it
Filled(old, offered) == IF old # "" THEN old ELSE offered

\* C4 (Name fill-once): a non-empty first_name or last_name is changed neither by a later
\* message of the same archive nor by a later merge of another archive, whatever the
\* dates; an empty one takes the first non-empty value offered in processing order.
C4_NameFillOnce ==
    [][/\ \A k \in DOMAIN contacts \cap DOMAIN contacts' :
             LET counted == stats'.messages_with_recipients > stats.messages_with_recipients
                 offer(field) == IF counted THEN FirstOffered(msg'.pairs, 1, k, field) ELSE ""
             IN  /\ contacts'[k].first_name
                       = Filled(contacts[k].first_name, offer("first_name"))
                 /\ contacts'[k].last_name
                       = Filled(contacts[k].last_name, offer("last_name"))
       /\ \A k \in DOMAIN all_contacts :
             LET merged == pc = "scan" /\ pc' = "main" /\ k \in DOMAIN contacts
                 offer(field) == IF merged THEN contacts[k][field] ELSE ""
             IN  /\ k \in DOMAIN all_contacts'
                 /\ all_contacts'[k].first_name
                       = Filled(all_contacts[k].first_name, offer("first_name"))
                 /\ all_contacts'[k].last_name
                       = Filled(all_contacts[k].last_name, offer("last_name"))]_vars

\* a contact named in the first archive kept its names although the second archive gave
\* it other names and a more recent date
C4_Witness ==
    /\ pc = "done"
    /\ Len(results) = 2
    /\ \E k \in DOMAIN results[1].contacts \cap DOMAIN results[2].contacts :
          /\ results[1].contacts[k].first_name # ""
          /\ results[2].contacts[k].first_name \notin {"", results[1].contacts[k].first_name}
          /\ all_contacts[k].first_name = results[1].contacts[k].first_name
          /\ all_contacts[k].last_contacted = results[2].contacts[k].last_contacted
          /\ all_contacts[k].last_contacted # results[1].contacts[k].last_contacted

\* C5 (Automated filtering): no address for which is_automated_email is true is a key of
\* a per-archive or of the final map, and once every archive is merged the
\* automated_emails_filtered counter is the number of automated recipient occurrences in
\* the To/Cc lists of all sent messages that have recipients.
C5_AutomatedFiltering ==
    /\ \A p \in Pairs :
          PairFacts[p].automated => PairFacts[p].email \notin DOMAIN contacts \cup DOMAIN all_contacts
    /\ Finished => total_stats.automated_emails_filtered = occurrences

\* the contact loop of extract_contacts_from_paths over the results in the order given
RECURSIVE MergeInOrder(_, _, _)
MergeInOrder(order, i, acc) ==
    IF i > Len(results) THEN acc
    ELSE MergeInOrder(order, i + 1, MergeContacts(acc, results[order[i]].contacts))

\* C6 (Archive-order independence): merging the per-archive results in any other order
\* gives each email the same last_contacted, the same notes and the same phone.
C6_OrderIndependent ==
    Finished =>
        \A order \in Permutations(1..Len(results)) :
            LET other == MergeInOrder(order, 1, EmptyMap)
            IN  \A k \in DOMAIN all_contacts :
                    /\ other[k].last_contacted = all_contacts[k].last_contacted
                    /\ other[k].notes = all_contacts[k].notes
                    /\ other[k].phone = all_contacts[k].phone

\* C7 (Per-message error isolation): a message that raises inside the per-message try
\* block adds one to parse_errors, leaves the scan running and leaves the contact map
\* exactly as it was before the message.
C7_ErrorIsolation ==
    [][(pc = "scan" /\ stats'.parse_errors # stats.parse_errors)
          => /\ stats'.parse_errors = stats.parse_errors + 1
             /\ pc' = "scan"
             /\ contacts' = contacts]_vars

AutomatedWords == {"unsubscribe", "noreply", "no-reply", "donotreply", "bounce",
                   "mailer-daemon"}

\* C8 (Address filter coverage): is_automated_email is true of every recipient address
\* that, lowercased, contains one of the automated words anywhere, local part or domain.
C8_FilterCoverage ==
    \A i \in 1..Len(msg.pairs) :
        LET addr == msg.pairs[i].addr
        IN  (\E w \in AutomatedWords : Contains(Lower(addr), w)) => is_automated_email(addr)

\* the sum of one counter over the first n per-archive results
RECURSIVE SumOver(_, _)
SumOver(field, n) == IF n = 0 THEN 0 ELSE results[n].stats[field] + SumOver(field, n - 1)

SummedCounters == {"total_messages", "sent_messages", "messages_with_recipients",
                   "parse_errors", "automated_emails_filtered"}

\* C9 (Merged statistics): each counter but unique_emails is the sum of that counter over
\* the per-archive results; the unique_emails of an archive is the size of its map, and
\* the final unique_emails is the number of keys of the final map.
C9_MergedStats ==
    /\ \A field \in SummedCounters : total_stats[field] = SumOver(field, Len(results))
    /\ \A i \in 1..Len(results) :
          results[i].stats.unique_emails = Cardinality(DOMAIN results[i].contacts)
    /\ Finished => total_stats.unique_emails = Cardinality(DOMAIN all_contacts)

\* two archives that share a contact were merged, so that the per-archive unique counts
\* add up to more than the final one, with a parse error and a filtered address counted
C9_Witness ==
    /\ pc = "done"
    /\ Len(results) = 2
    /\ results[1].stats.unique_emails > 0
    /\ results[2].stats.unique_emails > 0
    /\ SumOver("unique_emails", 2) > total_stats.unique_emails
    /\ total_stats.parse_errors > 0
    /\ total_stats.automated_emails_filtered > 0

\* C10 (Output ordering): the table is written at most once, only after every archive has
\* been scanned and merged, a finished run has written it once with the final map in key
\* order, and a run that an archive ended has written nothing.
C10_OutputOrdering ==
    /\ writes <= 1
    /\ writes = 1 => /\ pc = "done"
                     /\ path_idx > Len(mbox_paths)
                     /\ Len(results) = Len(mbox_paths)
                     /\ output = write_csv(all_contacts)
    /\ pc = "done" => writes = 1
    /\ writes = 0 => output = <<>>
    /\ pc = "aborted" => writes = 0

\* a run over two archives wrote its table of two rows
C10_Witness ==
    /\ pc = "done"
    /\ writes = 1
    /\ Len(mbox_paths) = 2
    /\ Len(output) = 2
    /\ StrLT(output[1].email, output[2].email)

\* C11 (Merge identity): when every per-archive result but one is empty, whatever the
\* position of the empty ones, the merged map is that one result's map, key for key and
\* field for field, and the result itself is what extract_contacts returned.
C11_MergeIdentity ==
    /\ \A i \in 1..Len(results) :
          (\A j \in 1..Len(results) : j # i => results[j].contacts = EmptyMap)
              => all_contacts = results[i].contacts
    /\ pc = "main" /\ path_idx > 1 => results[path_idx - 1].contacts = contacts

\* an archive with two contacts was merged and was followed by an empty archive
C11_Witness ==
    /\ pc = "done"
    /\ Len(results) = 2
    /\ Cardinality(DOMAIN results[1].contacts) = 2
    /\ results[2].contacts = EmptyMap
    /\ results[2].stats.total_messages > 0

\* the label tokens of a header value: split on commas, trimmed, lowercased
LabelTokens(v) == LET pieces == SplitOn(v, {","}, "")
                  IN  {Lower(Strip(pieces[i])) : i \in 1..Len(pieces)}

\* C12 (Sent classification): is_sent_message never raises; it returns the default when
\* the label header is absent, and when it is present it returns true exactly when one of
\* its tokens is "sent", "sent mail" or "sent items".
C12_SentClassification ==
    \A a \in BOOLEAN :
        LET r == is_sent_message(msg.labels, a)
        IN  /\ ~r.raised
            /\ ~msg.labels.present => r.sent = a
            /\ msg.labels.present =>
                  r.sent = (LabelTokens(msg.labels.value) \cap {"sent", "sent mail", "sent items"} # {})

\* how many pairs from i on the recipient loop upserts under the key k: empty and
\* automated addresses are skipped, a raise ends the loop
RECURSIVE TimesUpserted(_, _, _)
TimesUpserted(pairs, i, k) ==
    IF i > Len(pairs) THEN 0
    ELSE LET f == PairFacts[pairs[i]]
         IN  IF f.email = "" \/ f.automated THEN TimesUpserted(pairs, i + 1, k)
             ELSE IF f.names.raised THEN 0
             ELSE Bit(f.email = k) + TimesUpserted(pairs, i + 1, k)

\* the phone after an incoming phone met a record, whose date it replaced or not
PhoneAfter(old, incoming, replaced) ==
    IF incoming # "" /\ (replaced \/ old = "") THEN incoming ELSE old

RECURSIVE LoopRaises(_, _)
LoopRaises(pairs, i) ==
    IF i > Len(pairs) THEN FALSE
    ELSE LET f == PairFacts[pairs[i]]
         IN  IF f.email = "" \/ f.automated THEN LoopRaises(pairs, i + 1)
             ELSE f.names.raised \/ LoopRaises(pairs, i + 1)

ExistingRecords == {contacts[k] : k \in DOMAIN contacts} \cup {all_contacts[k] : k \in DOMAIN all_contacts}

\* the incoming values at hand: what the message read last offers for each of its
\* recipients whose name splits, and the records of the archive being scanned
IncomingRecords ==
    {NewRecord(PairFacts[msg.pairs[i]].email,
               PairFacts[msg.pairs[i]].names.first_name, PairFacts[msg.pairs[i]].names.last_name,
               BodyFacts[msg.texts].phone, DateFacts[msg.date], BodyFacts[msg.texts].notes) :
        i \in {j \in 1..Len(msg.pairs) : ~PairFacts[msg.pairs[j]].names.raised}}
    \cup {contacts[k] : k \in DOMAIN contacts}

\* C15 (Same merge rule in both places): for every existing record and every incoming
\* first_name, last_name, phone, date and notes, merge_contact gives the record that the
\* in-archive update of an existing email gives.
C15_SameRule ==
    \A existing \in ExistingRecords : \A incoming \in IncomingRecords :
        merge_contact(existing, incoming)
            = UpdateExisting(existing, incoming.first_name, incoming.last_name,
                             incoming.phone, incoming.last_contacted, incoming.notes)

\* both rules met a merged record of which a more recent message with another name,
\* another phone and other notes changes the date, the notes and the phone, not the name
C15_Witness ==
    \E existing \in {all_contacts[k] : k \in DOMAIN all_contacts} : \E incoming \in IncomingRecords :
        LET after == merge_contact(existing, incoming)
        IN  /\ existing.first_name # "" /\ incoming.first_name \notin {"", existing.first_name}
            /\ after.first_name = existing.first_name
            /\ existing.last_contacted # "" /\ after.last_contacted # existing.last_contacted
            /\ after.notes # existing.notes
            /\ existing.phone # "" /\ after.phone # existing.phone

\* C16 (Archive-split independence): scanning the archives one by one and merging them
\* in that order gives the final map, every field of every record, that scanning all
\* their messages in the same order as one archive gives.
C16_SplitIndependent == Finished => all_contacts = whole

=============================================================================
